---- MODULE Spec2Model ----
(***************************************************************************)
(* A model of top_ten(subreddit) of api_advanced/1-top_ten.py: one call of *)
(* the function against a simulated network outcome, step by step, with    *)
(* the Python semantics of the operations it applies to the parsed JSON    *)
(* (`in`, subscription, truthiness, len, .get) and of its two exception    *)
(* handlers.  stdout is the sequence out.                                  *)
(***************************************************************************)
EXTENDS Integers, Sequences, FiniteSets, TLC

VARIABLES
    subreddit,   \* the argument of the call
    net,         \* the simulated outcome of the HTTP request (the fixture)
    pc,          \* the position of the call in the function body
    status_code, \* response.status_code once the response is in (0 before)
    data,        \* the local `data`
    posts,       \* the local `posts`
    count,       \* the local `count`
    i,           \* the loop index
    exc,         \* the exception in flight ("none" when there is none)
    out,         \* the lines printed so far
    requests,    \* the number of calls of requests.get
    json_calls,  \* the number of calls of response.json()
    escaped      \* an exception left top_ten

vars == <<subreddit, net, pc, status_code, data, posts, count, i, exc, out,
          requests, json_calls, escaped>>

----------------------------------------------------------------------------
(* Bounds of the model.                                                    *)

\* children lists hold up to TopN + Extra elements
Extra == 1
\* at most MaxOdd elements of a children list are not plain titled posts
MaxOdd == 2

----------------------------------------------------------------------------
(* Python values: None, bool, int, str, list, dict.                        *)

JNull == [t |-> "null"]
JBool(b) == [t |-> "bool", b |-> b]
JNum(n) == [t |-> "num", n |-> n]
JStr(s) == [t |-> "str", s |-> s]
JList(xs) == [t |-> "list", xs |-> xs]
JDict(m) == [t |-> "dict", m |-> m]
EmptyMap == [k \in {} |-> JNull]
\* a local that is not bound yet
Unset == [t |-> "unset"]

\* `key in s` for two strings, over the strings of the model: "", "x", "data",
\* "metadata", "children", "grandchildren".
IsSubstring(key, s) ==
    \/ key = s
    \/ key = ""
    \/ key = "data" /\ s = "metadata"
    \/ key = "children" /\ s = "grandchildren"

\* the number of characters of a string of the model
StrLen(s) ==
    CASE s = "" -> 0
      [] s = "x" -> 1
      [] s = "data" -> 4
      [] s \in {"metadata", "children"} -> 8
      [] s = "grandchildren" -> 13

\* bool(v)
Truthy(v) ==
    CASE v.t = "null" -> FALSE
      [] v.t = "bool" -> v.b
      [] v.t = "num" -> v.n # 0
      [] v.t = "str" -> v.s # ""
      [] v.t = "list" -> v.xs # <<>>
      [] v.t = "dict" -> DOMAIN v.m # {}

\* isinstance(v, str)
IsStr(v) == v.t = "str"

\* The result of an operation that may raise: a value or an exception.
Ok(v) == [ok |-> TRUE, v |-> v, exc |-> "none"]
Raise(e) == [ok |-> FALSE, v |-> JNull, exc |-> e]

\* `key in v` for a str key
Contains(key, v) ==
    CASE v.t = "dict" -> Ok(JBool(key \in DOMAIN v.m))
      [] v.t = "list" -> Ok(JBool(\E k \in 1..Len(v.xs) : v.xs[k] = JStr(key)))
      [] v.t = "str" -> Ok(JBool(IsSubstring(key, v.s)))
      [] OTHER -> Raise("TypeError")

\* v[key] for a str key
Subscript(v, key) ==
    CASE v.t = "dict" ->
            IF key \in DOMAIN v.m THEN Ok(v.m[key]) ELSE Raise("KeyError")
      [] OTHER -> Raise("TypeError")

\* len(v)
PyLen(v) ==
    CASE v.t = "list" -> Ok(Len(v.xs))
      [] v.t = "dict" -> Ok(Cardinality(DOMAIN v.m))
      [] v.t = "str" -> Ok(StrLen(v.s))
      [] OTHER -> Raise("TypeError")

\* v[k] for an int k within range(len(v)), k counted from 0.  The keys of a
\* parsed JSON object are strings, so an int key is never found; an element
\* of a str is a one-character str, of which only the type matters here.
Index(v, k) ==
    CASE v.t = "list" ->
            IF k + 1 \in 1..Len(v.xs) THEN Ok(v.xs[k + 1]) ELSE Raise("IndexError")
      [] v.t = "dict" -> Raise("KeyError")
      [] v.t = "str" -> Ok(JStr("x"))
      [] OTHER -> Raise("TypeError")

\* v.get(key, default)
Get(v, key, default) ==
    IF v.t = "dict"
    THEN Ok(IF key \in DOMAIN v.m THEN v.m[key] ELSE default)
    ELSE Raise("AttributeError")

\* str(v), as print renders a title
Str(v) ==
    CASE v.t = "str" -> v.s
      [] v.t = "num" -> ToString(v.n)
      [] v.t = "bool" -> IF v.b THEN "True" ELSE "False"
      [] OTHER -> "None"

Min(a, b) == IF a <= b THEN a ELSE b

----------------------------------------------------------------------------
(* The function's constants.                                               *)

\* count = min(10, len(posts))
TopN == 10
\* the status codes the function names
HTTP_OK == 200
HTTP_FOUND == 302
HTTP_FORBIDDEN == 403

----------------------------------------------------------------------------
(* The inputs: arguments and simulated network outcomes.                   *)

ValidArgs == {JStr("python")}
InvalidArgs == {JStr(""), JNull, JNum(0), JNum(7), JBool(FALSE), JBool(TRUE),
                JList(<<>>), JList(<<JStr("python")>>), JDict(EmptyMap)}

\* requests.get returned a response / raised a RequestException
Response(code, valid, value) ==
    [kind |-> "response", status |-> code, valid |-> valid, value |-> value]
Failure(e) == [kind |-> e, status |-> 0, valid |-> FALSE, value |-> JNull]

RequestExceptions == {"Timeout", "ConnectionError"}
OtherStatuses == {204, 301, 302, 303, 403, 404, 500}

\* the k-th plain post: a mapping whose data holds a non-empty title
Title(k) == "post " \o ToString(k)
Post(k) == JDict([kind |-> JStr("t3"), data |-> JDict([title |-> JStr(Title(k))])])

\* the other elements a children list may hold
EmptyTitle == JDict([data |-> JDict([title |-> JStr("")])])
NoTitle == JDict([data |-> JDict([score |-> JNum(7)])])
NoData == JDict([kind |-> JStr("t3")])
NullTitle == JDict([data |-> JDict([title |-> JNull])])
NumTitle == JDict([data |-> JDict([title |-> JNum(7)])])
NotMapping == JNull
DataNotMapping == JDict([data |-> JNull])
OddPosts == {EmptyTitle, NoTitle, NoData, NotMapping, DataNotMapping}

MaxPosts == TopN + Extra
OddPositions(n) == {P \in SUBSET (1..n) : Cardinality(P) <= MaxOdd}
Children(n, P, f) == JList([k \in 1..n |-> IF k \in P THEN f[k] ELSE Post(k)])

Listing(children) ==
    JDict([kind |-> JStr("Listing"),
           data |-> JDict([children |-> children, after |-> JNull])])

\* values of "children" that are not a list of posts
OddChildren == {JNull, JNum(0), JNum(7), JBool(FALSE), JBool(TRUE), JStr(""),
                JStr("x"), JDict(EmptyMap), JDict([kind |-> JStr("t3")])}
\* values of "data" that hold no "children" key
OddData == {JNull, JNum(7), JStr("x"), JStr("children"), JStr("grandchildren"),
            JList(<<>>), JList(<<JStr("children")>>), JDict(EmptyMap),
            JDict([after |-> JNull])}
\* parsed values that hold no "data" key
OddTop == {JNull, JNum(7), JBool(TRUE), JStr("x"), JStr("data"),
           JStr("metadata"), JList(<<>>), JList(<<JStr("data")>>),
           JList(<<JStr("x")>>), JDict(EmptyMap),
           JDict([kind |-> JStr("Listing")])}
\* children lists with titles that are not strings
OddTitles == {JList(<<NullTitle>>), JList(<<NumTitle>>),
              JList(<<Post(1), NullTitle, NumTitle, Post(4)>>)}
OddValues ==
    OddTop \cup {JDict([data |-> d]) : d \in OddData}
           \cup {Listing(c) : c \in OddChildren \cup OddTitles}

\* the bodies tried with an invalid argument or a status other than 200
SmallBodies ==
    {[valid |-> FALSE, value |-> JNull],
     [valid |-> TRUE, value |-> JNull],
     [valid |-> TRUE, value |-> Listing(Children(0, {}, EmptyMap))],
     [valid |-> TRUE, value |-> Listing(Children(2, {}, EmptyMap))],
     [valid |-> TRUE, value |-> Listing(Children(MaxPosts, {}, EmptyMap))]}
SmallOutcomes ==
    {Failure(e) : e \in RequestExceptions}
    \cup {Response(code, b.valid, b.value) :
            code \in OtherStatuses \cup {HTTP_OK}, b \in SmallBodies}

----------------------------------------------------------------------------
(* The state after the call is made, before its first statement.           *)

Frame ==
    /\ pc = "start"
    /\ status_code = 0
    /\ data = Unset
    /\ posts = Unset
    /\ count = 0
    /\ i = 0
    /\ exc = "none"
    /\ out = <<>>
    /\ requests = 0
    /\ json_calls = 0
    /\ escaped = FALSE

Init ==
    /\ Frame
    /\ \/ /\ subreddit \in InvalidArgs
          /\ net \in SmallOutcomes
       \/ /\ subreddit \in ValidArgs
          /\ \/ net \in SmallOutcomes
             \/ net \in {Response(HTTP_OK, TRUE, v) : v \in OddValues}
             \/ \E n \in 0..MaxPosts : \E P \in OddPositions(n) :
                  \E f \in [P -> OddPosts] :
                     net = Response(HTTP_OK, TRUE, Listing(Children(n, P, f)))

----------------------------------------------------------------------------
(* The statements of top_ten.                                              *)

\* print(line)
print(line) == out' = Append(out, line)

\* raise e: control leaves the try body for the except clauses
raise(e) == /\ exc' = e
            /\ pc' = "except"

\* the test without its isinstance half: if not subreddit
InvalidArgumentNoTypeTest(s) == ~Truthy(s)

\* if not subreddit or not isinstance(subreddit, str)
InvalidArgument(s) == ~Truthy(s) \/ ~IsStr(s)

ValidateInput ==
    /\ pc = "start"
    /\ IF InvalidArgument(subreddit)
       THEN /\ print("None")
            /\ pc' = "done"
       ELSE /\ pc' = "request"
            /\ UNCHANGED out
    /\ UNCHANGED <<subreddit, net, status_code, data, posts, count, i, exc,
                   requests, json_calls, escaped>>

\* requests.get(url, headers=headers, allow_redirects=False, timeout=10) is
\* called: the request is on its way
SendRequest ==
    /\ pc = "request"
    /\ requests' = requests + 1
    /\ pc' = "awaiting"
    /\ UNCHANGED <<subreddit, net, status_code, data, posts, count, i, exc, out,
                   json_calls, escaped>>

\* requests.get returns the response, or raises a RequestException (a
\* timeout after 10 seconds, a connection error)
RequestCompletes ==
    /\ pc = "awaiting"
    /\ IF net.kind = "response"
       THEN /\ status_code' = net.status
            /\ pc' = "check_status"
            /\ UNCHANGED exc
       ELSE /\ raise(net.kind)
            /\ UNCHANGED status_code
    /\ UNCHANGED <<subreddit, net, data, posts, count, i, out, requests,
                   json_calls, escaped>>

\* the status tests without the last one: only 302 and 403 are turned away
StatusRejectedNamedOnly(code) ==
    \/ code = HTTP_FOUND
    \/ code = HTTP_FORBIDDEN

\* the three status tests: 302, 403, anything that is not 200
StatusRejected(code) ==
    \/ code = HTTP_FOUND
    \/ code = HTTP_FORBIDDEN
    \/ code # HTTP_OK

CheckStatus ==
    /\ pc = "check_status"
    /\ IF StatusRejected(status_code)
       THEN /\ print("None")
            /\ pc' = "done"
       ELSE /\ pc' = "parse"
            /\ UNCHANGED out
    /\ UNCHANGED <<subreddit, net, status_code, data, posts, count, i, exc,
                   requests, json_calls, escaped>>

\* data = response.json(), with its own except ValueError
ParseJson ==
    /\ pc = "parse"
    /\ json_calls' = json_calls + 1
    /\ IF net.valid
       THEN /\ data' = net.value
            /\ pc' = "check_structure"
            /\ UNCHANGED out
       ELSE /\ print("None")
            /\ pc' = "done"
            /\ UNCHANGED data
    /\ UNCHANGED <<subreddit, net, status_code, posts, count, i, exc, requests,
                   escaped>>

\* 'data' not in data or 'children' not in data['data'], left to right with
\* the short circuit of `or`
StructureMissing(d) ==
    LET hasData == Contains("data", d) IN
    IF ~hasData.ok THEN hasData
    ELSE IF ~hasData.v.b THEN Ok(JBool(TRUE))
    ELSE LET inner == Subscript(d, "data") IN
         IF ~inner.ok THEN inner
         ELSE LET hasChildren == Contains("children", inner.v) IN
              IF ~hasChildren.ok THEN hasChildren
              ELSE Ok(JBool(~hasChildren.v.b))

CheckStructure ==
    /\ pc = "check_structure"
    /\ LET missing == StructureMissing(data) IN
       IF ~missing.ok
       THEN /\ raise(missing.exc)
            /\ UNCHANGED out
       ELSE IF missing.v.b
       THEN /\ print("None")
            /\ pc' = "done"
            /\ UNCHANGED exc
       ELSE /\ pc' = "extract"
            /\ UNCHANGED <<exc, out>>
    /\ UNCHANGED <<subreddit, net, status_code, data, posts, count, i, requests,
                   json_calls, escaped>>

\* data['data']['children']
PostsOf(d) ==
    LET inner == Subscript(d, "data") IN
    IF ~inner.ok THEN inner ELSE Subscript(inner.v, "children")

\* posts = data['data']['children'], then if not posts
ExtractPosts ==
    /\ pc = "extract"
    /\ LET p == PostsOf(data) IN
       IF ~p.ok
       THEN /\ raise(p.exc)
            /\ UNCHANGED <<posts, out>>
       ELSE /\ posts' = p.v
            /\ IF ~Truthy(p.v)
               THEN /\ print("None")
                    /\ pc' = "done"
                    /\ UNCHANGED exc
               ELSE /\ pc' = "count"
                    /\ UNCHANGED <<exc, out>>
    /\ UNCHANGED <<subreddit, net, status_code, data, count, i, requests,
                   json_calls, escaped>>

\* the count without its cap: len(posts)
CountOfNoCap(p) == PyLen(p)

\* min(10, len(posts))
CountOf(p) ==
    LET n == PyLen(p) IN
    IF ~n.ok THEN n ELSE Ok(Min(TopN, n.v))

\* count = min(10, len(posts)), and the loop starts at i = 0
ComputeCount ==
    /\ pc = "count"
    /\ LET c == CountOf(posts) IN
       IF ~c.ok
       THEN /\ raise(c.exc)
            /\ UNCHANGED <<count, i>>
       ELSE /\ count' = c.v
            /\ i' = 0
            /\ pc' = "loop"
            /\ UNCHANGED exc
    /\ UNCHANGED <<subreddit, net, status_code, data, posts, out, requests,
                   json_calls, escaped>>

\* the title read by subscription: posts[k]['data']['title']
TitleAtStrict(p, k) ==
    LET post == Index(p, k) IN
    IF ~post.ok THEN post
    ELSE LET post_data == Subscript(post.v, "data") IN
         IF ~post_data.ok THEN post_data
         ELSE Subscript(post_data.v, "title")

\* posts[k].get('data', {}).get('title', '')
TitleAt(p, k) ==
    LET post == Index(p, k) IN
    IF ~post.ok THEN post
    ELSE LET post_data == Get(post.v, "data", JDict(EmptyMap)) IN
         IF ~post_data.ok THEN post_data
         ELSE Get(post_data.v, "title", JStr(""))

\* one turn of for i in range(count): the title is printed if it is truthy
LoopBody ==
    /\ pc = "loop"
    /\ i < count
    /\ LET title == TitleAt(posts, i) IN
       IF ~title.ok
       THEN /\ raise(title.exc)
            /\ UNCHANGED <<i, out>>
       ELSE /\ IF Truthy(title.v) THEN print(Str(title.v)) ELSE UNCHANGED out
            /\ i' = i + 1
            /\ UNCHANGED <<pc, exc>>
    /\ UNCHANGED <<subreddit, net, status_code, data, posts, count, requests,
                   json_calls, escaped>>

\* after the loop: if count == 0: print("None"), and the function returns
AfterLoop ==
    /\ pc = "loop"
    /\ i >= count
    /\ IF count = 0 THEN print("None") ELSE UNCHANGED out
    /\ pc' = "done"
    /\ UNCHANGED <<subreddit, net, status_code, data, posts, count, i, exc,
                   requests, json_calls, escaped>>

\* the handler with a retry: the first RequestException sends the request
\* again
ExceptRequestExceptionRetry ==
    /\ pc = "except"
    /\ exc \in RequestExceptions
    /\ IF requests < 2
       THEN /\ pc' = "request"
            /\ UNCHANGED out
       ELSE /\ print("None")
            /\ pc' = "done"
    /\ exc' = "none"
    /\ UNCHANGED <<subreddit, net, status_code, data, posts, count, i,
                   requests, json_calls, escaped>>

\* except requests.exceptions.RequestException: print("None")
ExceptRequestException ==
    /\ pc = "except"
    /\ exc \in RequestExceptions
    /\ print("None")
    /\ exc' = "none"
    /\ pc' = "done"
    /\ UNCHANGED <<subreddit, net, status_code, data, posts, count, i,
                   requests, json_calls, escaped>>

\* the classes derived from Exception that the statements above raise
Exceptions ==
    RequestExceptions
    \cup {"TypeError", "KeyError", "IndexError", "AttributeError", "ValueError"}

\* the catch-all handler without its print: except Exception: pass
ExceptExceptionSilent ==
    /\ pc = "except"
    /\ exc \notin RequestExceptions
    /\ exc' = "none"
    /\ pc' = "done"
    /\ UNCHANGED <<subreddit, net, status_code, data, posts, count, i, out,
                   requests, json_calls, escaped>>

\* except Exception: print("None"); an exception no clause matches leaves
\* the function
ExceptException ==
    /\ pc = "except"
    /\ exc \notin RequestExceptions
    /\ IF exc \in Exceptions
       THEN /\ print("None")
            /\ UNCHANGED escaped
       ELSE /\ escaped' = TRUE
            /\ UNCHANGED out
    /\ exc' = "none"
    /\ pc' = "done"
    /\ UNCHANGED <<subreddit, net, status_code, data, posts, count, i,
                   requests, json_calls>>

Next ==
    \/ ValidateInput
    \/ SendRequest
    \/ RequestCompletes
    \/ CheckStatus
    \/ ParseJson
    \/ CheckStructure
    \/ ExtractPosts
    \/ ComputeCount
    \/ LoopBody
    \/ AfterLoop
    \/ ExceptRequestException
    \/ ExceptException

Spec == Init /\ [][Next]_vars

----------------------------------------------------------------------------
(* What the claims speak of, stated on the inputs and the output alone.    *)

Done == pc = "done"
Sentinel == <<"None">>

\* the argument is a non-empty string
NonEmptyString(s) == s.t = "str" /\ s.s # ""

\* the request was answered with this status code
Answered(code) == net.kind = "response" /\ net.status = code

\* the parsed value holds the path data.children
HasPath(v) ==
    /\ v.t = "dict"
    /\ "data" \in DOMAIN v.m
    /\ v.m.data.t = "dict"
    /\ "children" \in DOMAIN v.m.data.m

\* a 200 response whose body is JSON holding a children sequence
GotListing ==
    /\ NonEmptyString(subreddit)
    /\ Answered(200)
    /\ net.valid
    /\ HasPath(net.value)
    /\ net.value.m.data.m.children.t = "list"

\* that sequence, and the number of its elements the function looks at
children == net.value.m.data.m.children.xs
FirstTen == 1..(IF Len(children) < 10 THEN Len(children) ELSE 10)

\* the element is a mapping whose data is a mapping with a non-empty string
\* under title
HasTitle(c) ==
    /\ c.t = "dict"
    /\ "data" \in DOMAIN c.m
    /\ c.m.data.t = "dict"
    /\ "title" \in DOMAIN c.m.data.m
    /\ c.m.data.m.title.t = "str"
    /\ c.m.data.m.title.s # ""
TitleText(c) == c.m.data.m.title.s

\* the element is a mapping with no data, or whose data is a mapping with no
\* title or with the empty string as title
Untitled(c) ==
    /\ c.t = "dict"
    /\ \/ "data" \notin DOMAIN c.m
       \/ /\ c.m.data.t = "dict"
          /\ \/ "title" \notin DOMAIN c.m.data.m
             \/ c.m.data.m.title = JStr("")

\* the element is not a mapping, or its data is not a mapping
Malformed(c) ==
    \/ c.t # "dict"
    \/ "data" \in DOMAIN c.m /\ c.m.data.t # "dict"

\* the non-empty titles of the first n elements of ch, in their order
RECURSIVE TitlesOf(_, _)
TitlesOf(ch, n) ==
    IF n = 0 THEN <<>>
    ELSE LET before == TitlesOf(ch, n - 1) IN
         IF HasTitle(ch[n]) THEN Append(before, TitleText(ch[n])) ELSE before

----------------------------------------------------------------------------
(* The claims.                                                             *)

\* The failure conditions of the error taxonomy: an invalid argument, a
\* network failure, a status other than 200, a body that is not JSON, JSON
\* without the data.children path or whose children is no sequence, an empty
\* sequence, a malformed element among the first ten, and a sequence whose
\* first ten elements all have the title missing or empty.
FailureCondition ==
    \/ ~NonEmptyString(subreddit)
    \/ net.kind # "response"
    \/ net.status # 200
    \/ ~net.valid
    \/ ~HasPath(net.value)
    \/ net.value.m.data.m.children.t # "list"
    \/ children = <<>>
    \/ \E k \in FirstTen : Malformed(children[k])
    \/ \A k \in FirstTen : Untitled(children[k])

\* No exception leaves top_ten, whatever the argument and the outcome of the
\* request.
NoExceptionEscapes == ~escaped

\* C1: for every argument and every outcome of the request, no exception
\* leaves top_ten, and a call under a failure condition ends with the
\* sentinel as its last line of output.
C1_FailuresEndWithSentinel ==
    /\ ~escaped
    /\ (Done /\ FailureCondition) =>
          (out # <<>> /\ out[Len(out)] = "None")

\* A finished call whose output holds a title followed by the sentinel: a
\* malformed element met after a title was printed.
MixedOutput ==
    /\ Done
    /\ Len(out) > 1
    /\ out[1] # "None"
    /\ out[Len(out)] = "None"

\* C2: the complete output of a call is either 1 to 10 title lines without
\* the sentinel, or the sentinel alone; never both, never empty.
C2_OutputShape ==
    Done =>
       \/ out = Sentinel
       \/ /\ Len(out) \in 1..10
          /\ \A k \in 1..Len(out) : out[k] # "None"

\* C3: a 200 response with a non-empty children sequence in which every one
\* of the first ten elements has its title missing or empty ends with the
\* sentinel as the output.
C3_NoTitlesGivesSentinel ==
    (/\ Done
     /\ GotListing
     /\ children # <<>>
     /\ \A k \in FirstTen : Untitled(children[k]))
    => out = Sentinel

\* C4: with an argument that is empty, falsy or not a string, no request is
\* ever issued, nothing but the sentinel is printed, and the call ends with
\* exactly the sentinel as its output.
C4_InvalidArgument ==
    ~NonEmptyString(subreddit) =>
       /\ requests = 0
       /\ out \in {<<>>, Sentinel}
       /\ Done => out = Sentinel

C4_Witness ==
    /\ Done
    /\ subreddit = JNum(7)
    /\ net.kind = "response"
    /\ out = Sentinel
    /\ requests = 0

\* C5: a 200 response whose n >= 1 children all hold a non-empty title gives
\* exactly min(n, 10) lines, line k being the title of the k-th child.
C5_FirstTenTitlesInOrder ==
    (/\ Done
     /\ GotListing
     /\ children # <<>>
     /\ \A k \in 1..Len(children) : HasTitle(children[k]))
    => /\ Len(out) = (IF Len(children) < 10 THEN Len(children) ELSE 10)
       /\ \A k \in 1..Len(out) : out[k] = TitleText(children[k])

C5_Witness ==
    /\ Done
    /\ GotListing
    /\ Len(children) > 10
    /\ \A k \in 1..Len(children) : HasTitle(children[k])
    /\ Len(out) = 10
    /\ out[10] = TitleText(children[10])

\* C6: with a status code other than 200 the body is never parsed, no title
\* is printed, and the output is exactly the sentinel, whatever the body.
C6_OtherStatusGivesSentinel ==
    (/\ NonEmptyString(subreddit)
     /\ net.kind = "response"
     /\ net.status # 200)
    => /\ json_calls = 0
       /\ data = Unset
       /\ out \in {<<>>, Sentinel}
       /\ Done => out = Sentinel

C6_Witness ==
    /\ Done
    /\ NonEmptyString(subreddit)
    /\ Answered(404)
    /\ net.valid
    /\ HasPath(net.value)
    /\ Len(children) > 10
    /\ out = Sentinel
    /\ json_calls = 0

\* C7: a 200 response gives exactly the sentinel when the body is not JSON,
\* when the parsed value lacks the data.children path (also when it or its
\* data is no mapping), and when the children sequence is empty.
C7_BadBodyGivesSentinel ==
    (/\ Done
     /\ NonEmptyString(subreddit)
     /\ Answered(200)
     /\ \/ ~net.valid
        \/ ~HasPath(net.value)
        \/ net.value.m.data.m.children = JList(<<>>))
    => out = Sentinel

C7_Witness ==
    /\ Done
    /\ NonEmptyString(subreddit)
    /\ Answered(200)
    /\ net.valid
    /\ net.value = JDict([data |-> JList(<<JStr("children")>>)])
    /\ out = Sentinel

\* C9: when the first ten children are mappings of which some hold a
\* non-empty title and the others have it missing (no data, or no title in
\* data) or empty, the output is exactly the non-empty titles of the first
\* ten children, in their order; no later child takes a skipped one's place.
C9_UntitledSkipped ==
    (/\ Done
     /\ GotListing
     /\ \A k \in FirstTen : HasTitle(children[k]) \/ Untitled(children[k])
     /\ \E k \in FirstTen : HasTitle(children[k]))
    => out = TitlesOf(children, Cardinality(FirstTen))

C9_Witness ==
    /\ Done
    /\ GotListing
    /\ Len(children) > 10
    /\ HasTitle(children[11])
    /\ \A k \in FirstTen : HasTitle(children[k]) \/ Untitled(children[k])
    /\ \E j \in FirstTen : \E k \in FirstTen :
          /\ j < k
          /\ "data" \notin DOMAIN children[j].m
          /\ Untitled(children[k])
          /\ "data" \in DOMAIN children[k].m
          /\ "title" \notin DOMAIN children[k].m.data.m
    /\ Len(out) = 8
    /\ out = TitlesOf(children, 10)

\* C10: with a valid argument one request is issued, no second one on any
\* path, and nothing is printed before the request has completed.
C10_OneRequestBeforeOutput ==
    NonEmptyString(subreddit) =>
       /\ requests <= 1
       /\ out # <<>> => (requests = 1 /\ pc \notin {"start", "request", "awaiting"})
       /\ Done => requests = 1

C10_Witness ==
    /\ Done
    /\ NonEmptyString(subreddit)
    /\ net.kind = "Timeout"
    /\ requests = 1
    /\ out = Sentinel

====
